---------------------------- MODULE Spec2Model ----------------------------
(***************************************************************************)
(* A model of autoregtest.py: one run of the automatic regression test of  *)
(* the ufs-weather-model.  main() resolves the command line, creates a     *)
(* temporary work directory, clones the code, runs the regression test     *)
(* harness, looks for the success marker in its log, mails the verdict and *)
(* cleans up.  Every external command goes through execute().              *)
(*                                                                         *)
(* Strings the program formats are modelled as tuples of their pieces      *)
(* (str.format), the regression test log and the captured output streams   *)
(* as tuples of characters.  The output streams are taken to be decodable  *)
(* text.  Paths made by mkdtemp and strftime are opaque values.            *)
(***************************************************************************)
EXTENDS Integers, Sequences, FiniteSets, TLC

VARIABLES
    pc,        \* the statement of main() (and of its callees) the run is at
    waiting,   \* TRUE while execute() blocks in p.communicate()
    args,      \* the argparse namespace
    run,       \* the tuple parse_arguments returned, NoRun before
    fs,        \* the work directories that exist
    tmpdir,    \* main's tmpdir
    cwd,       \* the process's current directory, as path components
    children,  \* the child processes started and not yet waited for
    last,      \* what the last child process did: cmd, status, stdout, stderr
    ret,       \* what the last call of execute() returned, NoRet if nothing
    error,     \* the exception that ended the run, NoError if none
    log,       \* the characters of the regression test log file
    verdict,   \* check_logs' local success
    notice,    \* check_logs' subject, message and mail command
    success,   \* main's success
    steps,     \* history: the steps of main() begun so far
    executed   \* history: the external commands started, with exit statuses

vars == <<pc, waiting, args, run, fs, tmpdir, cwd, children, last, ret, error,
          log, verdict, notice, success, steps, executed>>

-----------------------------------------------------------------------------
(* User config *)

FORKS ==
    [ dtc |-> [ branches |-> <<"dtc/develop">>,
                url |-> "https://github.com/NCAR/ufs-weather-model" ],
      emc |-> [ branches |-> <<"develop">>,
                url |-> "https://github.com/ufs-community/ufs-weather-model" ],
      dom |-> [ branches |-> <<"nems_machine_env_var">>,
                url |-> "https://github.com/climbfuji/ufs-weather-model" ] ]

SYSTEMS ==
    [ cheyenne |-> [ compilers |-> <<"intel", "gnu">>,
                     default_compiler |-> "intel",
                     default_project |-> "P48503002",
                     default_rtconfig |-> [ intel |-> "rt.conf",
                                            gnu |-> "rt_gnu.conf" ] ],
      hera |-> [ compilers |-> <<"intel">>,
                 default_compiler |-> "intel",
                 default_project |-> "gmtb",
                 default_rtconfig |-> [ intel |-> "rt.conf" ] ] ]

BASEDIR == "BASEDIR"

CHECKOUT_DIR == "ufs-weather-model"

TEST_DIR == "tests"

\* now.strftime(RT_LOG): the log's path, under BASEDIR
RT_LOG == "BASEDIR/rt_%Y%m%dT%H%M%S.log"

RT_SUCCESSFUL ==
    << "R","E","G","R","E","S","S","I","O","N"," ","T","E","S","T"," ",
       "W","A","S"," ","S","U","C","C","E","S","S","F","U","L" >>

DEFAULT_EMAIL_RECIPIENT == "heinzell@ucar.edu"

-----------------------------------------------------------------------------
(* Python values *)

\* Python's None, the default of the optional arguments
None == "<None>"

\* the truth value of an optional argument: None and '' are false
Truthy(v) == v # None /\ v # ""

\* x in xs, xs a list
InList(x, xs) == \E i \in 1..Len(xs) : xs[i] = x

NoRun == [ resolved |-> FALSE ]

NoError == [ raised_in |-> "" ]

NoRet == << >>

NoLast == [ cmd |-> << >> ]

NoNotice == [ subject |-> << >> ]

NoDir == ""

-----------------------------------------------------------------------------
(* The command lines the model draws from *)

ForkArgs == {"dtc", "emc", "dom", "ufs"}

BranchArgs == {"dtc/develop", "develop", "nems_machine_env_var", "master"}

SystemArgs == {"cheyenne", "hera", "orion"}

CompilerArgs == {None, "", "intel", "gnu", "pgi"}

ProjectArgs == {None, "", "acct01"}

RtconfigArgs == {None, "", "rt_ccpp.conf"}

EmailArgs == {None, "", "ops@example.org"}

ArgSpace ==
    [ fork : ForkArgs, branch : BranchArgs, system : SystemArgs,
      compiler : CompilerArgs, project : ProjectArgs, rtconfig : RtconfigArgs,
      keep : BOOLEAN, email : EmailArgs ]

-----------------------------------------------------------------------------
(* parse_arguments *)

\* a mutant of ValidBranch: the branch of any known fork is accepted
ValidBranch_OfAnyFork(fork, branch) ==
    \E f \in DOMAIN FORKS : InList(branch, FORKS[f].branches)

ValidBranch(fork, branch) == InList(branch, FORKS[fork].branches)

ValidCompiler(system, compiler) == InList(compiler, SYSTEMS[system].compilers)

\* a mutant of DefaultRtconfig: the test-config of the default compiler
DefaultRtconfig_OfDefaultCompiler(system, compiler) ==
    SYSTEMS[system].default_rtconfig[SYSTEMS[system].default_compiler]

DefaultRtconfig(system, compiler) == SYSTEMS[system].default_rtconfig[compiler]

ConfigError(message) ==
    [ raised |-> TRUE, message |-> message, value |-> NoRun ]

\* What parse_arguments does with the namespace a: the exception it raises,
\* or the tuple it returns.
parse_arguments(a) ==
    IF a.fork \notin DOMAIN FORKS
    THEN ConfigError(<<"Invalid fork ", a.fork>>)
    ELSE IF ~ValidBranch(a.fork, a.branch)
    THEN ConfigError(<<"Invalid branch ", a.branch, " of fork">>)
    ELSE IF a.system \notin DOMAIN SYSTEMS
    THEN ConfigError(<<"Invalid system ", a.system>>)
    ELSE
    LET compiler == IF Truthy(a.compiler) THEN a.compiler
                    ELSE SYSTEMS[a.system].default_compiler
    IN  IF ~ValidCompiler(a.system, compiler)
        THEN ConfigError(<<"Invalid compiler ", compiler, " for system ", a.system>>)
        ELSE
        [ raised |-> FALSE, message |-> << >>,
          value |->
            [ resolved |-> TRUE,
              fork |-> a.fork,
              branch |-> a.branch,
              system |-> a.system,
              compiler |-> compiler,
              project |-> IF Truthy(a.project) THEN a.project
                          ELSE SYSTEMS[a.system].default_project,
              rtconfig |-> IF Truthy(a.rtconfig) THEN a.rtconfig
                           ELSE DefaultRtconfig(a.system, compiler),
              keep |-> a.keep,
              email |-> IF Truthy(a.email) THEN a.email
                        ELSE DEFAULT_EMAIL_RECIPIENT ] ]

-----------------------------------------------------------------------------
(* execute *)

\* a mutant of rstrip: one trailing newline is removed, not all
rstrip_Once(s) ==
    IF s # << >> /\ s[Len(s)] = "\n" THEN SubSeq(s, 1, Len(s) - 1) ELSE s

\* s.rstrip('\n')
RECURSIVE rstrip(_)
rstrip(s) ==
    IF s # << >> /\ s[Len(s)] = "\n" THEN rstrip(SubSeq(s, 1, Len(s) - 1)) ELSE s

\* a mutant of Failed: the negative status of a killed child passes
Failed_PositiveOnly(status) == status > 0

\* if not status == 0
Failed(status) == ~(status = 0)

\* What execute(cmd) does when the child process exits with `status` having
\* written `out` and `err`: the exception it raises, or the triple it returns.
execute(cmd, status, out, err) ==
    LET stdout == rstrip(out)
        stderr == rstrip(err)
    IN  IF Failed(status)
        THEN [ raised |-> TRUE,
               message |-> << "Execution of command ", cmd,
                              " failed, exit code ", status, "\n",
                              "    stdout: \"", stdout, "\"\n",
                              "    stderr: \"", stderr, "\"" >>,
               value |-> NoRet ]
        ELSE [ raised |-> FALSE, message |-> << >>,
               value |-> <<status, stdout, stderr>> ]

-----------------------------------------------------------------------------
(* The command lines and the notification *)

\* the path tempfile.mkdtemp returns
TmpPath == "/tmp/regtest_ufs_weather_model_"

CloneCmd(r) ==
    << "git clone -v -b ", r.branch, " ", FORKS[r.fork].url, " ", CHECKOUT_DIR >>

SyncCmd == << "git submodule sync" >>

UpdateCmd == << "git submodule update --init --recursive" >>

HarnessCmd(r, rtlog) ==
    LET keep_flag == IF r.keep THEN "-k" ELSE ""
    IN  << "NEMS_MACHINE=", r.system, " NEMS_COMPILER=", r.compiler,
           " ACCNR=", r.project, " ./rt.sh -l ", r.rtconfig, " ", keep_flag,
           " > ", rtlog, " 2>&1" >>

MailCmd(message, rtlog, subject, email) ==
    << "echo \"", message, "\" | mail -a \"", rtlog, "\" -s \"", subject,
       "\" ", email >>

\* a mutant of Contains: the log has to start with the marker
Contains_AtStartOnly(needle, hay) ==
    Len(hay) >= Len(needle) /\ SubSeq(hay, 1, Len(needle)) = needle

\* a mutant of Contains: the log has to be the marker
Contains_WholeLogOnly(needle, hay) == hay = needle

\* RT_SUCCESSFUL in f.read()
Contains(needle, hay) ==
    \E i \in 0..(Len(hay) - Len(needle)) :
        SubSeq(hay, i + 1, i + Len(needle)) = needle

\* a mutant of Compose: one message for every passed run
Compose_AlwaysNamingDir(ok, keep, system, compiler, rtlog, dir) ==
    IF ok
    THEN [ subject |-> <<system, "/", compiler, ": regression tests passed">>,
           message |-> << "Regression tests passed, see regression test log ",
                          rtlog, " and run directory ", dir, "." >> ]
    ELSE [ subject |-> <<system, "/", compiler, ": regression tests did NOT PASS">>,
           message |-> << "Regression tests did NOT PASS, check latest regression test log ",
                          rtlog, " and run directory ", dir >> ]

\* check_logs' subject and message
Compose(ok, keep, system, compiler, rtlog, dir) ==
    IF ok /\ keep
    THEN [ subject |-> <<system, "/", compiler, ": regression tests passed">>,
           message |-> << "Regression tests passed, see regression test log ",
                          rtlog, " and run directory ", dir, "." >> ]
    ELSE IF ok /\ ~keep
    THEN [ subject |-> <<system, "/", compiler, ": regression tests passed">>,
           message |-> << "Regression tests passed, see regression test log ",
                          rtlog, "." >> ]
    ELSE [ subject |-> <<system, "/", compiler, ": regression tests did NOT PASS">>,
           message |-> << "Regression tests did NOT PASS, check latest regression test log ",
                          rtlog, " and run directory ", dir >> ]

\* a mutant of ShouldDelete: keep is ignored
ShouldDelete_IgnoringKeep(ok, keep) == ok

\* a mutant of ShouldDelete: success is ignored
ShouldDelete_IgnoringSuccess(ok, keep) == ~keep

\* cleanup's condition
ShouldDelete(ok, keep) == ok /\ ~keep

\* a mutant of After: the submodule sync is skipped
After_SkippingSync(p) ==
    CASE p = "clone"     -> "update"
      [] p = "sync"      -> "update"
      [] p = "update"    -> "run_tests"
      [] p = "run_tests" -> "check_logs"
      [] p = "mail"      -> "cleanup"

\* where main() goes on when the command started at p has returned
After(p) ==
    CASE p = "clone"     -> "sync"
      [] p = "sync"      -> "update"
      [] p = "update"    -> "run_tests"
      [] p = "run_tests" -> "check_logs"
      [] p = "mail"      -> "cleanup"

-----------------------------------------------------------------------------
(* What the child processes may do *)

\* exit statuses: killed by a signal, success, failure
ExitStatuses == {-9, 0, 1}

StreamChars == {"a", "\n"}

MaxStreamLen == 2

\* every output stream of at most MaxStreamLen characters
Streams == UNION { [1..n -> StreamChars] : n \in 0..MaxStreamLen }

StreamSamples == { << >>, <<"o", "k", "\n">> }

\* pieces of a regression test log: RT_SUCCESSFUL is LogHead \o LogTail
LogHead == SubSeq(RT_SUCCESSFUL, 1, 20)

LogTail == SubSeq(RT_SUCCESSFUL, 21, 30)

LogChunks ==
    { LogHead, LogTail, <<"N", "O", "T", " ">>, <<"\n">>,
      SubSeq(RT_SUCCESSFUL, 21, 27) }

MaxLogChunks == 3

RECURSIVE LogsOf(_)
LogsOf(n) ==
    IF n = 0 THEN { << >> }
    ELSE LET shorter == LogsOf(n - 1)
         IN  shorter \cup { l \o c : l \in shorter, c \in LogChunks }

\* every log of at most MaxLogChunks pieces
Logs == LogsOf(MaxLogChunks)

LogSamples ==
    { << >>,
      RT_SUCCESSFUL,
      <<"\n">> \o RT_SUCCESSFUL \o <<"\n">>,
      LogHead \o <<"N", "O", "T", " ">> \o LogTail }

\* a few valid command lines
RunArgs ==
    { a \in ArgSpace :
        /\ a.fork = "emc" /\ a.branch = "develop"
        /\ a.system \in {"cheyenne", "hera"}
        /\ a.compiler = None /\ a.project = None /\ a.rtconfig = None
        /\ a.email \in {None, "ops@example.org"} }

\* three of them: cheyenne with and without keep, hera with keep
ExecArgs == { a \in RunArgs : a.email = None /\ (a.system = "hera" => a.keep) }

-----------------------------------------------------------------------------
(* main *)

InitWith(A) ==
    /\ args \in A
    /\ pc = "parse_arguments"
    /\ waiting = FALSE
    /\ run = NoRun
    /\ fs = {}
    /\ tmpdir = NoDir
    /\ cwd = <<BASEDIR>>
    /\ children = << >>
    /\ last = NoLast
    /\ ret = NoRet
    /\ error = NoError
    /\ log = << >>
    /\ verdict = FALSE
    /\ notice = NoNotice
    /\ success = FALSE
    /\ steps = << >>
    /\ executed = << >>

\* main, line 264: parse_arguments()
ParseArguments ==
    /\ pc = "parse_arguments"
    /\ steps' = Append(steps, "parse_arguments")
    /\ LET r == parse_arguments(args)
       IN  IF r.raised
           THEN /\ error' = [ raised_in |-> "parse_arguments", message |-> r.message ]
                /\ pc' = "aborted"
                /\ run' = run
           ELSE /\ run' = r.value
                /\ pc' = "get_workdir"
                /\ error' = error
    /\ UNCHANGED <<waiting, args, fs, tmpdir, cwd, children, last, ret, log,
                   verdict, notice, success, executed>>

\* main, line 265: get_workdir()
GetWorkdir ==
    /\ pc = "get_workdir"
    /\ steps' = Append(steps, "get_workdir")
    /\ fs' = fs \cup {TmpPath}
    /\ tmpdir' = TmpPath
    /\ pc' = "clone"
    /\ UNCHANGED <<waiting, args, run, cwd, children, last, ret, error, log,
                   verdict, notice, success, executed>>

\* execute, lines 110-112: the child process is started
Popen(cmd) ==
    /\ ~waiting
    /\ waiting' = TRUE
    /\ children' = Append(children, [ cmd |-> cmd ])
    /\ executed' = Append(executed, [ cmd |-> cmd, done |-> FALSE, status |-> 0 ])
    /\ ret' = NoRet

\* checkout_code: git clone
Clone ==
    /\ pc = "clone"
    /\ steps' = Append(steps, "clone")
    /\ cwd' = <<tmpdir>>
    /\ Popen(CloneCmd(run))
    /\ UNCHANGED <<pc, args, run, fs, tmpdir, last, error, log, verdict, notice,
                   success>>

\* checkout_code: git submodule sync
SubmoduleSync ==
    /\ pc = "sync"
    /\ steps' = Append(steps, "sync")
    /\ cwd' = Append(cwd, CHECKOUT_DIR)
    /\ Popen(SyncCmd)
    /\ UNCHANGED <<pc, args, run, fs, tmpdir, last, error, log, verdict, notice,
                   success>>

\* checkout_code: git submodule update
SubmoduleUpdate ==
    /\ pc = "update"
    /\ steps' = Append(steps, "update")
    /\ Popen(UpdateCmd)
    /\ UNCHANGED <<pc, args, run, fs, tmpdir, cwd, last, error, log, verdict,
                   notice, success>>

\* run_tests: the harness, its output redirected to the log (checkout_code
\* has gone back to BASEDIR, line 211, before run_tests changes directory)
RunTests ==
    /\ pc = "run_tests"
    /\ steps' = Append(steps, "run_tests")
    /\ cwd' = <<tmpdir, CHECKOUT_DIR, TEST_DIR>>
    /\ Popen(HarnessCmd(run, RT_LOG))
    /\ UNCHANGED <<pc, args, run, fs, tmpdir, last, error, log, verdict, notice,
                   success>>

\* check_logs, lines 232-249: the verdict, the subject and the message
\* (run_tests has gone back to BASEDIR, line 227)
CheckLogs ==
    /\ pc = "check_logs"
    /\ steps' = Append(steps, "check_logs")
    /\ cwd' = <<BASEDIR>>
    /\ verdict' = Contains(RT_SUCCESSFUL, log)
    /\ notice' = Compose(verdict', run.keep, run.system, run.compiler, RT_LOG, tmpdir)
    /\ pc' = "mail"
    /\ UNCHANGED <<waiting, args, run, fs, tmpdir, children, last, ret, error,
                   log, success, executed>>

\* check_logs, lines 251-252: the mail command
Mail ==
    /\ pc = "mail"
    /\ steps' = Append(steps, "mail")
    /\ Popen(MailCmd(notice.message, RT_LOG, notice.subject, run.email))
    /\ UNCHANGED <<pc, args, run, fs, tmpdir, cwd, last, error, log, verdict,
                   notice, success>>

\* execute, lines 113-127: the child process ends, having written outputs
\* from S (and, the harness, a log from L); execute raises or returns, and
\* on a return the caller goes on (check_logs returns its verdict to main).
Communicate(S, L) ==
    /\ waiting
    /\ \E status \in ExitStatuses, out \in S, err \in S,
          l \in (IF pc = "run_tests" THEN L ELSE {log}) :
          LET p == Head(children)
              r == execute(p.cmd, status, out, err)
          IN  /\ children' = Tail(children)
              /\ waiting' = FALSE
              /\ log' = l
              /\ last' = [ cmd |-> p.cmd, status |-> status,
                           stdout |-> out, stderr |-> err ]
              /\ executed' = [ executed EXCEPT ![Len(executed)] =
                                 [ @ EXCEPT !.done = TRUE, !.status = status ] ]
              /\ ret' = r.value
              /\ IF r.raised
                 THEN /\ error' = [ raised_in |-> "execute", message |-> r.message ]
                      /\ pc' = "aborted"
                      /\ success' = success
                 ELSE /\ error' = error
                      /\ pc' = After(pc)
                      /\ success' = IF pc = "mail" THEN verdict ELSE success
    /\ UNCHANGED <<args, run, fs, tmpdir, cwd, verdict, notice, steps>>

\* main, lines 269-270: cleanup()
Cleanup ==
    /\ pc = "cleanup"
    /\ steps' = Append(steps, "cleanup")
    /\ fs' = IF ShouldDelete(success, run.keep) THEN fs \ {tmpdir} ELSE fs
    /\ pc' = "finished"
    /\ UNCHANGED <<waiting, args, run, tmpdir, cwd, children, last, ret, error,
                   log, verdict, notice, success, executed>>

Init == InitWith(ArgSpace)

Next ==
    \/ ParseArguments
    \/ GetWorkdir
    \/ Clone
    \/ SubmoduleSync
    \/ SubmoduleUpdate
    \/ RunTests
    \/ CheckLogs
    \/ Mail
    \/ Communicate(StreamSamples, LogSamples)
    \/ Cleanup

\* every command line, a few outputs and logs
Spec == Init /\ [][Next]_vars

InitExec == InitWith(ExecArgs)

NextExec ==
    \/ ParseArguments
    \/ GetWorkdir
    \/ Clone
    \/ SubmoduleSync
    \/ SubmoduleUpdate
    \/ RunTests
    \/ CheckLogs
    \/ Mail
    \/ Communicate(Streams, LogSamples)
    \/ Cleanup

\* a few command lines and logs, every output of the child processes
SpecExec == InitExec /\ [][NextExec]_vars

InitLog == InitWith(RunArgs)

NextLog ==
    \/ ParseArguments
    \/ GetWorkdir
    \/ Clone
    \/ SubmoduleSync
    \/ SubmoduleUpdate
    \/ RunTests
    \/ CheckLogs
    \/ Mail
    \/ Communicate(StreamSamples, Logs)
    \/ Cleanup

\* a few command lines and outputs, every log
SpecLog == InitLog /\ [][NextLog]_vars

-----------------------------------------------------------------------------
(* Vocabulary of the properties *)

\* the run is over: main returned, or an exception ended it
Ended == pc \in {"finished", "aborted"}

\* the work directory exists
DirExists == TmpPath \in fs

\* the order of the steps of a run
StepOrder ==
    << "parse_arguments", "get_workdir", "clone", "sync", "update",
       "run_tests", "check_logs", "mail", "cleanup" >>

\* the step each external command of a run belongs to, in StepOrder
CommandStep == <<3, 4, 5, 6, 8>>

\* the harness is the fourth external command, the mail command the fifth
HarnessInvoked == Len(executed) >= 4

HarnessExited == HarnessInvoked /\ executed[4].done

MailInvoked == Len(executed) >= 5

\* every external command started so far has exited with status zero
AllExitedZero ==
    \A i \in 1..Len(executed) : executed[i].done /\ executed[i].status = 0

\* the marker is in l, character by character, at some place
HasMarker(l) ==
    \E k \in 0..(Len(l) - Len(RT_SUCCESSFUL)) :
        \A j \in 1..Len(RT_SUCCESSFUL) : l[k + j] = RT_SUCCESSFUL[j]

\* s without the newlines it ends with
WithoutTrailingNewlines(s) ==
    CHOOSE t \in { SubSeq(s, 1, n) : n \in 0..Len(s) } :
        /\ t = << >> \/ t[Len(t)] # "\n"
        /\ \A i \in (Len(t) + 1)..Len(s) : s[i] = "\n"

\* an optional argument was given (argparse leaves None otherwise; an empty
\* string is taken as not given)
Given(v) == v \notin {None, ""}

KnownFork == args.fork \in {"dtc", "emc", "dom"}

AllowedBranch ==
    \/ args.fork = "dtc" /\ args.branch = "dtc/develop"
    \/ args.fork = "emc" /\ args.branch = "develop"
    \/ args.fork = "dom" /\ args.branch = "nems_machine_env_var"

KnownSystem == args.system \in {"cheyenne", "hera"}

\* the compiler given, or the system's default
WantedCompiler ==
    IF Given(args.compiler) THEN args.compiler
    ELSE SYSTEMS[args.system].default_compiler

AllowedCompiler ==
    \/ args.system = "cheyenne" /\ WantedCompiler \in {"intel", "gnu"}
    \/ args.system = "hera" /\ WantedCompiler = "intel"

\* the message names the run directory
NamesRunDir(message) == \E i \in 1..Len(message) : message[i] = TmpPath

SubjectPassed == notice.subject[4] = ": regression tests passed"

SubjectNotPassed == notice.subject[4] = ": regression tests did NOT PASS"

-----------------------------------------------------------------------------
(* The claims *)

\* C1: when cleanup has run on the existing work directory, the directory
\* is gone if and only if success is true and keep is false; with success and
\* keep, failure and keep, failure and no keep, it is still there.
C1_CleanupDeletesIffSuccessAndNotKeep ==
    pc = "finished" =>
        /\ (~DirExists) <=> (success /\ ~run.keep)
        /\ (success /\ run.keep) => DirExists
        /\ (~success /\ run.keep) => DirExists
        /\ (~success /\ ~run.keep) => DirExists

C1_Witness ==
    /\ pc = "finished" /\ steps[Len(steps)] = "cleanup"
    /\ success /\ ~run.keep /\ ~DirExists

\* C2, as stated: when the run has ended, the harness has written a log with
\* the success marker and keep is false, the work directory is deleted,
\* whatever the exit statuses of the external commands were.
C2_Original ==
    (Ended /\ HarnessExited /\ HasMarker(log) /\ ~run.keep) => ~DirExists

\* C2, amended: when the run has ended, every external command has exited
\* with status zero, the log has the success marker and keep is false, the
\* run has finished and the work directory is deleted.
C2_DeletedWhenAllCommandsSucceed ==
    (Ended /\ HarnessExited /\ AllExitedZero /\ HasMarker(log) /\ ~run.keep)
        => (pc = "finished" /\ ~DirExists)

C2_Witness ==
    /\ pc = "finished" /\ AllExitedZero /\ MailInvoked
    /\ HasMarker(log) /\ ~run.keep /\ ~DirExists

\* a run that ended in a failure: an exception, or a log without the marker
EndedInFailure == pc = "aborted" \/ (pc = "finished" /\ ~success)

\* C3, as stated: in every run that ends in a failure, a configuration error
\* included, the work directory exists when the run ends.
C3_Original == EndedInFailure => DirExists

\* C3, amended: a run that ends in a failure after the work directory was
\* created (an external command exited non-zero, or the log lacks the
\* marker) leaves the directory in place; a run that ends with a
\* configuration error never created one.
C3_DirectoryLeftOnFailure ==
    EndedInFailure =>
        IF error.raised_in = "parse_arguments"
        THEN fs = {} /\ tmpdir = NoDir
        ELSE tmpdir = TmpPath /\ DirExists

C3_Witness ==
    /\ pc = "aborted" /\ error.raised_in = "execute"
    /\ MailInvoked /\ executed[5].status # 0
    /\ verdict /\ ~run.keep /\ DirExists

\* C4: with an unknown fork, a branch that is not the fork's, an unknown
\* system or a compiler (given or defaulted) that is not the system's,
\* parse_arguments raises, and up to there no external command was started
\* and no work directory was created.
C4_InvalidArgumentsFailFirst ==
    (pc # "parse_arguments" /\
     ~(KnownFork /\ AllowedBranch /\ KnownSystem /\ AllowedCompiler))
        => /\ pc = "aborted"
           /\ error.raised_in = "parse_arguments"
           /\ run = NoRun
           /\ executed = << >> /\ children = << >> /\ last = NoLast
           /\ fs = {} /\ tmpdir = NoDir
           /\ steps = << "parse_arguments" >>

C4_Witness ==
    /\ pc = "aborted" /\ error.raised_in = "parse_arguments"
    /\ KnownFork /\ AllowedBranch /\ KnownSystem
    /\ args.system = "hera" /\ args.compiler = "gnu"
    /\ executed = << >> /\ fs = {}

\* C5: execute returns the triple (status, stdout, stderr) exactly when the
\* exit status is zero, and the status returned is then 0; with any other
\* exit status it returns nothing and raises an exception whose message
\* holds the command, the exit status and the two captured streams (the
\* streams as execute captures them: without their trailing newlines).
C5_ExecuteReturnsIffStatusZero ==
    (~waiting /\ last # NoLast) =>
        LET stdout == WithoutTrailingNewlines(last.stdout)
            stderr == WithoutTrailingNewlines(last.stderr)
        IN  /\ (ret # NoRet) <=> (last.status = 0)
            /\ (last.status = 0) =>
                   /\ ret = <<0, stdout, stderr>>
                   /\ error = NoError
            /\ (last.status # 0) =>
                   /\ pc = "aborted"
                   /\ error.raised_in = "execute"
                   /\ error.message[2] = last.cmd
                   /\ error.message[4] = last.status
                   /\ error.message[7] = stdout
                   /\ error.message[10] = stderr

C5_Witness ==
    /\ pc = "aborted" /\ ~waiting /\ last # NoLast
    /\ last.status = -9
    /\ last.stdout = <<"a", "\n">> /\ last.stderr = <<"\n", "\n">>
    /\ error.message[7] = <<"a">> /\ error.message[10] = << >>
    /\ ret = NoRet

\* C6: the steps of a run are a prefix of the fixed order, none repeated or
\* skipped; at most one external command is in progress; every command but
\* the last has exited with status zero before the next was started; and
\* when a command has exited non-zero the run is aborted at the step of that
\* command: no later step, no later command.
C6_StepsInOrderAndAbortOnFailure ==
    /\ Len(steps) <= Len(StepOrder)
    /\ steps = SubSeq(StepOrder, 1, Len(steps))
    /\ Len(children) <= 1
    /\ waiting <=> (children # << >>)
    /\ Len(executed) <= Len(CommandStep)
    /\ \A i \in 1..Len(executed) :
          /\ Len(steps) >= CommandStep[i]
          /\ i < Len(executed) => (executed[i].done /\ executed[i].status = 0)
          /\ ~executed[i].done => (i = Len(executed) /\ waiting)
          /\ (executed[i].done /\ executed[i].status # 0) =>
                /\ i = Len(executed)
                /\ pc = "aborted"
                /\ children = << >>
                /\ Len(steps) = CommandStep[i]
    /\ pc = "finished" => (steps = StepOrder /\ Len(executed) = 5 /\ AllExitedZero)

C6_Witness ==
    /\ pc = "aborted"
    /\ Len(executed) = 2 /\ executed[2].done /\ executed[2].status = 1
    /\ steps = << "parse_arguments", "get_workdir", "clone", "sync" >>

\* C7: when the mail command has succeeded, check_logs has returned true
\* exactly when the log has the marker 'REGRESSION TEST WAS SUCCESSFUL'
\* somewhere in it, whatever surrounds it and whatever keep, system, compiler
\* and recipient are.
C7_SuccessIffMarkerInLog ==
    pc \in {"cleanup", "finished"} => (success <=> HasMarker(log))

C7_Witness ==
    /\ pc = "cleanup" /\ success
    /\ Len(log) > Len(RT_SUCCESSFUL)
    /\ log[1] = "\n"

\* C8, as stated: every run in which the harness was invoked ends with a
\* notification composed and the mail command run, a crashed harness
\* included.
C8_Original ==
    (Ended /\ HarnessInvoked) => (notice # NoNotice /\ MailInvoked)

\* C8, amended: a run whose harness exited with status zero ends with a
\* notification composed and the mail command run, and a log without the
\* marker (empty or cut short included) makes it the 'did NOT PASS' mail
\* with the log attached; a harness that exited non-zero ends the run with
\* no notification composed and no mail command run.
C8_NotificationAfterHarnessExitZero ==
    (Ended /\ HarnessExited) =>
        /\ executed[4].status = 0 =>
              /\ notice # NoNotice /\ MailInvoked
              /\ executed[5].cmd[2] = notice.message
              /\ executed[5].cmd[6] = notice.subject
              /\ executed[5].cmd[4] = RT_LOG
              /\ ~HasMarker(log) =>
                    /\ ~verdict
                    /\ SubjectNotPassed
                    /\ notice.message[1] =
                         "Regression tests did NOT PASS, check latest regression test log "
        /\ executed[4].status # 0 =>
              /\ pc = "aborted"
              /\ notice = NoNotice /\ ~MailInvoked

C8_Witness ==
    /\ Ended /\ HarnessExited /\ executed[4].status = 0
    /\ log = SubSeq(RT_SUCCESSFUL, 1, 20) \o <<"N", "O", "T", " ">>
               \o SubSeq(RT_SUCCESSFUL, 21, 30)
    /\ MailInvoked /\ SubjectNotPassed

\* what C9 says the resolved tuple is
ResolvedAsClaimed ==
    /\ run.resolved
    /\ run.fork = args.fork /\ run.branch = args.branch
    /\ run.system = args.system /\ run.keep = args.keep
    /\ run.compiler = WantedCompiler
    /\ run.project = IF Given(args.project) THEN args.project
                     ELSE SYSTEMS[args.system].default_project
    /\ run.rtconfig = IF Given(args.rtconfig) THEN args.rtconfig
                      ELSE SYSTEMS[args.system].default_rtconfig[run.compiler]
    /\ run.email = IF Given(args.email) THEN args.email ELSE "heinzell@ucar.edu"
    /\ (/\ args.fork = "emc" /\ args.branch = "develop" /\ args.system = "hera"
        /\ ~Given(args.compiler) /\ ~Given(args.project) /\ ~Given(args.rtconfig))
          => (/\ run.compiler = "intel" /\ run.project = "gmtb"
              /\ run.rtconfig = "rt.conf")

\* C9, as stated: with a valid fork, branch and system, resolution succeeds
\* for every choice of the optional arguments.
C9_Original ==
    (pc # "parse_arguments" /\ KnownFork /\ AllowedBranch /\ KnownSystem)
        => ResolvedAsClaimed

\* C9, amended: with a valid fork, branch and system and a compiler (given
\* or defaulted) that is the system's, resolution succeeds and yields the
\* given compiler, project, test-config and address, or the system's
\* default compiler and project, its default test-config for the resolved
\* compiler (defined for every allowed compiler) and the default recipient;
\* emc, develop, hera resolve to intel, gmtb, rt.conf.
C9_ResolutionOfValidArguments ==
    /\ \A s \in DOMAIN SYSTEMS : \A i \in 1..Len(SYSTEMS[s].compilers) :
          SYSTEMS[s].compilers[i] \in DOMAIN SYSTEMS[s].default_rtconfig
    /\ (pc # "parse_arguments" /\ KnownFork /\ AllowedBranch /\ KnownSystem
          /\ AllowedCompiler)
        => ResolvedAsClaimed

C9_Witness ==
    /\ pc = "get_workdir"
    /\ args.system = "cheyenne" /\ args.compiler = "gnu"
    /\ args.rtconfig = None /\ args.project = "" /\ args.email = None
    /\ run.rtconfig = "rt_gnu.conf" /\ run.project = "P48503002"
    /\ run.email = "heinzell@ucar.edu"

\* C10: when the run has finished, the message mailed names the run
\* directory exactly when the directory still exists, the subject says
\* 'passed' exactly when success is true, and the message that leaves the
\* directory out is the one of success without keep, the case in which
\* cleanup deleted it.
C10_NoticeAgreesWithWorkdir ==
    pc = "finished" =>
        /\ executed[5].cmd[2] = notice.message
        /\ executed[5].cmd[6] = notice.subject
        /\ NamesRunDir(notice.message) <=> DirExists
        /\ SubjectPassed <=> success
        /\ SubjectNotPassed <=> ~success
        /\ (~NamesRunDir(notice.message)) <=> (success /\ ~run.keep)

C10_Witness ==
    /\ pc = "finished" /\ success /\ ~run.keep
    /\ ~NamesRunDir(notice.message) /\ ~DirExists /\ SubjectPassed

=============================================================================
